---- MODULE Spec2Model ----
(***************************************************************************)
(* Model of the post controller of routes/api/posts.js.                    *)
(*                                                                         *)
(* Every handler is an async function: the code between two awaits runs    *)
(* to completion, so one action of the model is the code from one          *)
(* resumption of a handler up to its next await (or its response).         *)
(* Several requests may be in flight; each holds its own in-memory copy    *)
(* of the post it read.  The document store is not part of the file: its   *)
(* findById, save and remove are modelled as the specification describes   *)
(* them (a save writes the whole document back, a failed save writes       *)
(* nothing).                                                               *)
(*                                                                         *)
(* Spec runs every operation, one request after the other; SpecLikes and   *)
(* SpecComments let the requests that write the likes, and those that      *)
(* write the comments, overlap freely.                                     *)
(***************************************************************************)
EXTENDS Integers, Sequences, FiniteSets, Bags, TLC

\* ---------------------------------------------------------------- bounds
MaxPosts    == 1      \* post ids ever allocated
MaxComments == 2      \* comment ids ever allocated
MaxReqs     == 2      \* requests in flight at the same time
MaxServed   == 5      \* requests the router accepts in a run

Users    == {"u1", "u2"}
Texts    == {"", "hello"}
\* ids a request may carry: 0 stands for a malformed id, the others are
\* well-formed (whether or not a document has that id)
PostIdInputs    == 0..MaxPosts
CommentIdInputs == 1..MaxComments
Lookups  == {"found", "missing", "error"}

VARIABLES
    posts,      \* the Post collection: id -> document
    nextPid,    \* next post id the driver hands out
    nextCid,    \* next comment id the driver hands out
    reqs,       \* bag of the handlers suspended at the await of their write
    resp,       \* the response sent last
    lastWrite,  \* post id -> the like that was the last write of that document
    served,     \* requests accepted so far
    acked       \* post id -> the users whose like was the last thing answered
                \*            with 200 among their likes and unlikes of the post

vars == <<posts, nextPid, nextCid, reqs, resp, lastWrite, acked, served>>

\* ------------------------------------------------------------- documents
NameOf(u)   == "name-" \o u
AvatarOf(u) == "avatar-" \o u

NoDoc == [id |-> 0, user |-> "none", text |-> "", name |-> "", avatar |-> "",
          likes |-> <<>>, comments |-> <<>>]

NoComment == [id |-> 0, text |-> "", name |-> "", avatar |-> "", user |-> "none"]

NewPost(id, text, caller) ==
    [id |-> id, text |-> text, name |-> NameOf(caller),
     avatar |-> AvatarOf(caller), user |-> caller,
     likes |-> <<>>, comments |-> <<>>]

NewComment(id, text, caller) ==
    [id |-> id, text |-> text, name |-> NameOf(caller),
     avatar |-> AvatarOf(caller), user |-> caller]

\* ------------------------------------------------- JavaScript array ops
Unshift(arr, x) == <<x>> \o arr

\* arr.map(e => e.user.toString())
MapUser(arr) == [i \in 1..Len(arr) |-> arr[i].user]

\* arr.indexOf(x): 0-based position of the first match, -1 when absent
IndexOf(arr, x) ==
    IF \E i \in 1..Len(arr) : arr[i] = x
    THEN (CHOOSE i \in 1..Len(arr) :
              arr[i] = x /\ \A j \in 1..(i-1) : arr[j] # x) - 1
    ELSE -1

\* arr.splice(start, 1): a negative start counts from the end
Splice(arr, start) ==
    LET n == Len(arr)
        s == IF start < 0 THEN (IF n + start < 0 THEN 0 ELSE n + start)
             ELSE (IF start > n THEN n ELSE start)
    IN  [i \in 1..(IF s < n THEN n - 1 ELSE n) |->
            IF i <= s THEN arr[i] ELSE arr[i+1]]

\* arr.filter(like => like.user.toString() === id)
FilterUser(arr, u) == SelectSeq(arr, LAMBDA e : e.user = u)

\* arr.find(comment => comment.id === cid), NoComment for undefined
FindComment(arr, cid) ==
    IF \E i \in 1..Len(arr) : arr[i].id = cid
    THEN arr[CHOOSE i \in 1..Len(arr) :
                 arr[i].id = cid /\ \A j \in 1..(i-1) : arr[j].id # cid]
    ELSE NoComment

\* ------------------------------------------------------ the document store
IsObjectId(id) == id > 0

\* Post.findById(id): what the await can produce
FindOutcomes(id) ==
    IF ~IsObjectId(id)
    THEN {[err |-> "CastError", doc |-> NoDoc]}
    ELSE {[err |-> "StoreError", doc |-> NoDoc]} \cup
         (IF id \in DOMAIN posts
          THEN {[err |-> "none", doc |-> posts[id]]}
          ELSE {[err |-> "null", doc |-> NoDoc]})

\* doc.save() of an existing document: the whole document is written back
StoreWrite(doc) ==
    IF doc.id \in DOMAIN posts
    THEN [posts EXCEPT ![doc.id] = doc]
    ELSE posts

\* newPost.save(): the document is inserted
StoreInsert(doc) ==
    [i \in DOMAIN posts \cup {doc.id} |-> IF i = doc.id THEN doc ELSE posts[i]]

\* post.remove()
StoreRemove(id) == [i \in DOMAIN posts \ {id} |-> posts[i]]

\* ---------------------------------------------------------------- requests
\* a handler suspended at `await post.save()` (or remove): read is the post
\* as findById returned it, doc the in-memory copy the handler has changed,
\* stale says that another request has written the post since the read
Saving(op, caller, pid, cid, read, doc) ==
    [op |-> op, caller |-> caller, pid |-> pid, cid |-> cid, read |-> read,
     doc |-> doc, stale |-> FALSE]

\* stale: the handler wrote a copy that had missed another request's write
Response(op, caller, pid, err, status, stale) ==
    [op |-> op, caller |-> caller, pid |-> pid, err |-> err, status |-> status,
     stale |-> stale]

\* the catch block sends the text without setting the status
CatchStatus_NoStatus(err) == 200

\* the catch block of every handler but get-by-id
CatchStatus(err) == 500

\* the catch block of get-by-id
GetCatchStatus(err) == IF err = "CastError" THEN 404 ELSE 500

\* lastWrite[p] when the last write of p was no like; for a like, user is
\* the caller and prev the likes the handler had read
NoWrite == [op |-> "none", user |-> "none", prev |-> <<>>]

RECURSIVE SumCounts(_, _)
SumCounts(B, S) ==
    IF S = {} THEN 0
    ELSE LET x == CHOOSE y \in S : TRUE IN B[x] + SumCounts(B, S \ {x})

\* the handlers in flight once w has written post w.pid: w is gone and every
\* other copy of that post has missed w's write
AfterWrite(w) ==
    LET rest == reqs (-) SetToBag({w})
        Mark(q) == IF q.pid = w.pid THEN [q EXCEPT !.stale = TRUE] ELSE q
        img == {Mark(q) : q \in DOMAIN rest}
    IN  [y \in img |-> SumCounts(rest, {q \in DOMAIN rest : Mark(q) = y})]

InFlight == BagToSet(reqs)

Init ==
    /\ posts = <<>>
    /\ nextPid = 1
    /\ nextCid = 1
    /\ reqs = EmptyBag
    /\ resp = Response("none", "none", 0, "none", 0, FALSE)
    /\ lastWrite = [p \in 1..MaxPosts |-> NoWrite]
    /\ acked = [p \in 1..MaxPosts |-> {}]
    /\ served = 0

\* -------------------------------------------------------------- handlers
\* the handler answers without having awaited a write
Answer(op, caller, pid, err, status) ==
    /\ resp' = Response(op, caller, pid, err, status, FALSE)
    /\ UNCHANGED reqs

\* the handler suspends at the await of its write
Suspend(q) ==
    /\ BagCardinality(reqs) < MaxReqs
    /\ reqs' = reqs (+) SetToBag({q})
    /\ UNCHANGED resp

\* the router hands a request to its handler
Accept == served < MaxServed /\ served' = served + 1

\* POST / : validation, User.findById, new Post(...), up to the await of save
CreateStart(caller, text, lookup) ==
    /\ Accept
    /\ IF text = ""
       THEN /\ Answer("create", caller, 0, "none", 400)
            /\ UNCHANGED nextPid
       ELSE IF lookup = "error"
       THEN /\ Answer("create", caller, 0, "StoreError", CatchStatus("StoreError"))
            /\ UNCHANGED nextPid
       ELSE IF lookup = "missing"
       THEN /\ Answer("create", caller, 0, "TypeError", CatchStatus("TypeError"))
            /\ UNCHANGED nextPid
       ELSE /\ nextPid <= MaxPosts
            /\ Suspend(Saving("create", caller, nextPid, 0, NoDoc, NewPost(nextPid, text, caller)))
            /\ nextPid' = nextPid + 1
    /\ UNCHANGED <<posts, nextCid, lastWrite, acked>>

\* POST / : newPost.save() resolves, res.json(post)
CreateSaveOk(q) ==
    /\ UNCHANGED served
    /\ q \in InFlight /\ q.op = "create"
    /\ posts' = StoreInsert(q.doc)
    /\ reqs' = reqs (-) SetToBag({q})
    /\ resp' = Response("create", q.caller, q.pid, "none", 200, q.stale)
    /\ UNCHANGED <<nextPid, nextCid, lastWrite, acked>>

\* any handler: the awaited write rejects, the catch block answers
SaveFail(q) ==
    /\ UNCHANGED served
    /\ q \in InFlight
    /\ reqs' = reqs (-) SetToBag({q})
    /\ resp' = Response(q.op, q.caller, q.pid, "StoreError",
                        CatchStatus("StoreError"), q.stale)
    /\ UNCHANGED <<posts, nextPid, nextCid, lastWrite, acked>>

\* GET /:id
GetById(caller, id) ==
    /\ Accept
    /\ \E out \in FindOutcomes(id) :
          IF out.err = "none"
          THEN Answer("get", caller, id, "none", 200)
          ELSE IF out.err = "null"
          \* `status(404)`: status is not defined, the ReferenceError is caught
          THEN Answer("get", caller, id, "ReferenceError",
                      GetCatchStatus("ReferenceError"))
          ELSE Answer("get", caller, id, out.err, GetCatchStatus(out.err))
    /\ UNCHANGED <<posts, nextPid, nextCid, lastWrite, acked>>

\* the owner check left out
IsOwner_Always(post, caller) == TRUE

\* line 91: the owner check of DELETE /:id
IsOwner(post, caller) == post.user = caller

\* DELETE /:id : findById, the owner check, up to the await of remove
DeletePostFind(caller, id) ==
    /\ Accept
    /\ \E out \in FindOutcomes(id) :
          IF out.err = "none"
          THEN IF ~IsOwner(out.doc, caller)
               THEN Answer("deletePost", caller, id, "none", 401)
               ELSE Suspend(Saving("deletePost", caller, id, 0, out.doc, out.doc))
          ELSE IF out.err = "null"
          THEN Answer("deletePost", caller, id, "TypeError", CatchStatus("TypeError"))
          ELSE Answer("deletePost", caller, id, out.err, CatchStatus(out.err))
    /\ UNCHANGED <<posts, nextPid, nextCid, lastWrite, acked>>

\* DELETE /:id : post.remove() resolves
DeletePostRemoveOk(q) ==
    /\ UNCHANGED served
    /\ q \in InFlight /\ q.op = "deletePost"
    /\ posts' = StoreRemove(q.pid)
    /\ reqs' = AfterWrite(q)
    /\ resp' = Response("deletePost", q.caller, q.pid, "none", 200, q.stale)
    /\ lastWrite' = [lastWrite EXCEPT ![q.pid] = NoWrite]
    /\ acked' = [acked EXCEPT ![q.pid] = {}]
    /\ UNCHANGED <<nextPid, nextCid>>

\* the stored reference compared with the caller's id string without
\* toString(): never equal
AlreadyLiked_NoToString(post, caller) == FALSE

\* line 113: the caller's entries among the likes
AlreadyLiked(post, caller) == Len(FilterUser(post.likes, caller)) > 0

\* push in place of unshift
LikeMutate_Push(post, caller) ==
    [post EXCEPT !.likes = Append(post.likes, [user |-> caller])]

\* line 117
LikeMutate(post, caller) ==
    [post EXCEPT !.likes = Unshift(post.likes, [user |-> caller])]

\* PUT /like/:id : findById, the check, the unshift, up to the await of save
LikeFind(caller, id) ==
    /\ Accept
    /\ \E out \in FindOutcomes(id) :
          IF out.err = "none"
          THEN IF AlreadyLiked(out.doc, caller)
               THEN Answer("like", caller, id, "none", 400)
               ELSE Suspend(Saving("like", caller, id, 0, out.doc, LikeMutate(out.doc, caller)))
          ELSE IF out.err = "null"
          THEN Answer("like", caller, id, "TypeError", CatchStatus("TypeError"))
          ELSE Answer("like", caller, id, out.err, CatchStatus(out.err))
    /\ UNCHANGED <<posts, nextPid, nextCid, lastWrite, acked>>

\* the stored reference compared without toString(): the check never fires
NotLiked_Never(post, caller) == FALSE

\* line 138
NotLiked(post, caller) == Len(FilterUser(post.likes, caller)) = 0

\* splice(removeIndex) without the delete count: everything from there on goes
UnlikeMutate_NoCount(post, caller) ==
    [post EXCEPT !.likes =
        SubSeq(post.likes, 1, IndexOf(MapUser(post.likes), caller))]

\* lines 143-145
UnlikeMutate(post, caller) ==
    [post EXCEPT !.likes = Splice(post.likes, IndexOf(MapUser(post.likes), caller))]

\* PUT /unlike/:id
UnlikeFind(caller, id) ==
    /\ Accept
    /\ \E out \in FindOutcomes(id) :
          IF out.err = "none"
          THEN IF NotLiked(out.doc, caller)
               THEN Answer("unlike", caller, id, "none", 400)
               ELSE Suspend(Saving("unlike", caller, id, 0, out.doc, UnlikeMutate(out.doc, caller)))
          ELSE IF out.err = "null"
          THEN Answer("unlike", caller, id, "TypeError", CatchStatus("TypeError"))
          ELSE Answer("unlike", caller, id, out.err, CatchStatus(out.err))
    /\ UNCHANGED <<posts, nextPid, nextCid, lastWrite, acked>>

\* lines 179-186
CommentMutate(post, cid, text, caller) ==
    [post EXCEPT !.comments = Unshift(post.comments, NewComment(cid, text, caller))]

\* POST /comment/:id : validation, User.findById, Post.findById, the unshift
CommentFind(caller, id, text, lookup) ==
    /\ Accept
    /\ IF text = ""
       THEN /\ Answer("comment", caller, id, "none", 400)
            /\ UNCHANGED nextCid
       ELSE IF lookup = "error"
       THEN /\ Answer("comment", caller, id, "StoreError", CatchStatus("StoreError"))
            /\ UNCHANGED nextCid
       ELSE \E out \in FindOutcomes(id) :
          IF out.err = "none" /\ lookup = "found"
          THEN /\ nextCid <= MaxComments
               /\ Suspend(Saving("comment", caller, id, nextCid, out.doc,
                                 CommentMutate(out.doc, nextCid, text, caller)))
               /\ nextCid' = nextCid + 1
          ELSE IF out.err \in {"none", "null"}
          THEN /\ Answer("comment", caller, id, "TypeError", CatchStatus("TypeError"))
               /\ UNCHANGED nextCid
          ELSE /\ Answer("comment", caller, id, out.err, CatchStatus(out.err))
               /\ UNCHANGED nextCid
    /\ UNCHANGED <<posts, nextPid, lastWrite, acked>>

\* the author check left out
IsAuthor_Always(comment, caller) == TRUE

\* line 216: the author check of DELETE /comment/:id/:comment_id
IsAuthor(comment, caller) == comment.user = caller

\* lines 220-224
DeleteCommentMutate(post, caller) ==
    [post EXCEPT !.comments =
        Splice(post.comments, IndexOf(MapUser(post.comments), caller))]

\* DELETE /comment/:id/:comment_id
DeleteCommentFind(caller, id, cid) ==
    /\ Accept
    /\ \E out \in FindOutcomes(id) :
          IF out.err = "none"
          THEN LET comment == FindComment(out.doc.comments, cid) IN
               IF comment = NoComment
               THEN Answer("deleteComment", caller, id, "none", 404)
               ELSE IF ~IsAuthor(comment, caller)
               THEN Answer("deleteComment", caller, id, "none", 401)
               ELSE Suspend(Saving("deleteComment", caller, id, cid, out.doc,
                                   DeleteCommentMutate(out.doc, caller)))
          ELSE IF out.err = "null"
          THEN Answer("deleteComment", caller, id, "TypeError", CatchStatus("TypeError"))
          ELSE Answer("deleteComment", caller, id, out.err, CatchStatus(out.err))
    /\ UNCHANGED <<posts, nextPid, nextCid, lastWrite, acked>>

\* like, unlike, comment, delete-comment: post.save() resolves, the array is sent
SaveOk(q) ==
    /\ UNCHANGED served
    /\ q \in InFlight
    /\ q.op \in {"like", "unlike", "comment", "deleteComment"}
    /\ posts' = StoreWrite(q.doc)
    /\ reqs' = AfterWrite(q)
    /\ resp' = Response(q.op, q.caller, q.pid, "none", 200, q.stale)
    /\ lastWrite' = [lastWrite EXCEPT ![q.pid] =
                        IF q.pid \notin DOMAIN posts THEN @
                        ELSE IF q.op = "like"
                        THEN [op |-> "like", user |-> q.caller,
                              prev |-> MapUser(q.read.likes)]
                        ELSE NoWrite]
    /\ acked' = [acked EXCEPT ![q.pid] =
                    IF q.pid \notin DOMAIN posts THEN @
                    ELSE IF q.op = "like" THEN @ \cup {q.caller}
                    ELSE IF q.op = "unlike" THEN @ \ {q.caller}
                    ELSE @]
    /\ UNCHANGED <<nextPid, nextCid>>

CreateOps ==
    \/ \E u \in Users, t \in Texts, l \in Lookups : CreateStart(u, t, l)
    \/ \E q \in InFlight : CreateSaveOk(q)

LikeOps ==
    \/ \E u \in Users, id \in PostIdInputs : LikeFind(u, id)
    \/ \E u \in Users, id \in PostIdInputs : UnlikeFind(u, id)

CommentOps ==
    \/ \E u \in Users, id \in PostIdInputs, t \in Texts, l \in Lookups :
           CommentFind(u, id, t, l)
    \/ \E u \in Users, id \in PostIdInputs, c \in CommentIdInputs :
           DeleteCommentFind(u, id, c)

SaveOps ==
    \/ \E q \in InFlight : SaveOk(q)
    \/ \E q \in InFlight : SaveFail(q)

\* no handler is suspended
Quiet == reqs = EmptyBag

\* every operation of the router, a request arriving once the one before has
\* been answered
Next ==
    \/ Quiet /\ \E u \in Users, t \in Texts, l \in Lookups : CreateStart(u, t, l)
    \/ \E q \in InFlight : CreateSaveOk(q)
    \/ Quiet /\ \E u \in Users, id \in PostIdInputs : GetById(u, id)
    \/ Quiet /\ \E u \in Users, id \in PostIdInputs : DeletePostFind(u, id)
    \/ \E q \in InFlight : DeletePostRemoveOk(q)
    \/ Quiet /\ \E u \in Users, id \in PostIdInputs : LikeFind(u, id)
    \/ Quiet /\ \E u \in Users, id \in PostIdInputs : UnlikeFind(u, id)
    \/ Quiet /\ \E u \in Users, id \in PostIdInputs, t \in Texts, l \in Lookups :
                    CommentFind(u, id, t, l)
    \/ Quiet /\ \E u \in Users, id \in PostIdInputs, c \in CommentIdInputs :
                    DeleteCommentFind(u, id, c)
    \/ \E q \in InFlight : SaveOk(q)
    \/ \E q \in InFlight : SaveFail(q)

Spec == Init /\ [][Next]_vars

\* the requests that write the likes, overlapping freely
NextLikes == CreateOps \/ LikeOps \/ SaveOps

SpecLikes == Init /\ [][NextLikes]_vars

\* the requests that write the comments, overlapping freely
NextComments == CreateOps \/ CommentOps \/ SaveOps

SpecComments == Init /\ [][NextComments]_vars

\* ------------------------------------------------------------ properties
Likers(post) == {post.likes[i].user : i \in 1..Len(post.likes)}

NoDup(seq) == \A i, j \in 1..Len(seq) : i # j => seq[i] # seq[j]

RemoveAt(seq, i) == [k \in 1..(Len(seq) - 1) |-> IF k < i THEN seq[k] ELSE seq[k+1]]

\* an answer of a request whose own read of the store failed
ReadFailed == resp'.status = 500 /\ resp'.err = "StoreError"

\* C1: whatever Like and Unlike requests have run and however they overlapped,
\* the likes of every stored post hold each user at most once.
C1_LikesUnique == \A p \in DOMAIN posts : NoDup(MapUser(posts[p].likes))

\* a Like that had missed another request's write has been saved, and the
\* caller is in the likes once
C1_Witness ==
    /\ resp.op = "like" /\ resp.status = 200 /\ resp.stale
    /\ resp.pid \in DOMAIN posts
    /\ MapUser(posts[resp.pid].likes) = <<resp.caller>>
    /\ acked[resp.pid] = {resp.caller}

\* C2: a Delete-comment by the author of comment c, not overlapping another
\* write of the post, leaves the comments as they were with the entry of id c
\* taken out.
C2_RemovesThatComment ==
    [][\A q \in InFlight :
          (q.op = "deleteComment" /\ ~q.stale /\ q.pid \in DOMAIN posts /\ SaveOk(q))
          => posts'[q.pid].comments =
                 SelectSeq(posts[q.pid].comments, LAMBDA c : c.id # q.cid)]_vars

\* C3: a Get-by-id whose id is malformed or matches no stored post is answered
\* with 404 (the store's own failure apart).
C3_GetMissingIs404 ==
    [][\A u \in Users, id \in PostIdInputs :
          (id \notin DOMAIN posts /\ resp'.err # "StoreError" /\ GetById(u, id))
          => resp'.status = 404]_vars

\* C4: a Delete-post by a caller who is not the owner is answered 401 (500 if
\* the read of the store fails) and changes no post; the owner of a post never
\* changes, and a post leaves the store only in the step that completes a
\* Delete-post of its owner.
C4_OnlyOwnerDeletes ==
    [][/\ \A u \in Users, id \in DOMAIN posts :
            (posts[id].user # u /\ DeletePostFind(u, id))
            => /\ posts' = posts /\ reqs' = reqs
               /\ resp'.status = 401 \/ ReadFailed
       /\ \A p \in DOMAIN posts :
            IF p \in DOMAIN posts'
            THEN posts'[p].user = posts[p].user
            ELSE \E q \in InFlight :
                    /\ DeletePostRemoveOk(q)
                    /\ q.pid = p /\ q.caller = posts[p].user
                    /\ resp'.op = "deletePost" /\ resp'.status = 200
       /\ \A q \in InFlight :
            CreateSaveOk(q) => posts'[q.pid].user = q.caller]_vars

\* a Delete-post of a caller who is not the owner has been answered 401 and the
\* post is in the store
C4_Witness ==
    /\ resp.op = "deletePost" /\ resp.status = 401
    /\ resp.pid \in DOMAIN posts
    /\ posts[resp.pid].user # resp.caller

\* C5: when the last write of a post is a Like of V and V's Unlike then reads
\* and writes the post with no other write in between, the Unlike is not
\* rejected, is answered 200 and leaves the likes as the Like had read them.
C5_LikeUnlikeRoundTrip ==
    [][/\ \A q \in InFlight :
            (/\ q.op = "unlike" /\ ~q.stale
             /\ q.pid \in DOMAIN posts
             /\ lastWrite[q.pid].op = "like" /\ lastWrite[q.pid].user = q.caller
             /\ SaveOk(q))
            => /\ resp'.status = 200
               /\ MapUser(posts'[q.pid].likes) = lastWrite[q.pid].prev
       /\ \A u \in Users, id \in DOMAIN posts :
            (/\ lastWrite[id].op = "like" /\ lastWrite[id].user = u
             /\ reqs' = reqs
             /\ UnlikeFind(u, id))
            => ReadFailed]_vars

\* the third request of the run, V's Unlike, has been answered 200: the post
\* was created, V liked it, V unliked it, and the likes are empty again
C5_Witness ==
    /\ served = 3
    /\ resp.op = "unlike" /\ resp.status = 200 /\ ~resp.stale
    /\ resp.pid \in DOMAIN posts
    /\ posts[resp.pid].likes = <<>>
    /\ acked[resp.pid] = {}

\* C6: a Like of a user who is in the likes of the post is answered 400 (500
\* if the read of the store fails) and writes nothing.
C6_SecondLikeRejected ==
    [][\A u \in Users, id \in DOMAIN posts :
          (u \in Likers(posts[id]) /\ LikeFind(u, id))
          => /\ posts' = posts /\ reqs' = reqs
             /\ resp'.status = 400 \/ ReadFailed]_vars

\* a Like of a user who is in the likes has been answered 400
C6_Witness ==
    /\ resp.op = "like" /\ resp.status = 400
    /\ resp.pid \in DOMAIN posts
    /\ resp.caller \in Likers(posts[resp.pid])

\* C7: an Unlike of a user who is not in the likes of the post is answered 400
\* (500 if the read of the store fails) and writes nothing.
C7_UnlikeOfNotLikedRejected ==
    [][\A u \in Users, id \in DOMAIN posts :
          (u \notin Likers(posts[id]) /\ UnlikeFind(u, id))
          => /\ posts' = posts /\ reqs' = reqs
             /\ resp'.status = 400 \/ ReadFailed]_vars

\* an Unlike of a user who is not in the likes has been answered 400, and
\* another user's like is still there
C7_Witness ==
    /\ resp.op = "unlike" /\ resp.status = 400
    /\ resp.pid \in DOMAIN posts
    /\ resp.caller \notin Likers(posts[resp.pid])
    /\ Likers(posts[resp.pid]) # {}

\* C8: when the write a handler awaits fails, the request is answered 500, no
\* post changes and the handler's copy is dropped.
C8_FailedWriteChangesNothing ==
    [][\A q \in InFlight :
          SaveFail(q)
          => /\ resp'.status = 500 /\ resp'.op = q.op
             /\ posts' = posts
             /\ reqs' = reqs (-) SetToBag({q})]_vars

\* the save of a comment has failed: 500, and the post has no comment
C8_Witness ==
    /\ resp.op = "comment" /\ resp.status = 500 /\ resp.err = "StoreError"
    /\ resp.pid \in DOMAIN posts
    /\ posts[resp.pid].comments = <<>>
    /\ nextCid > 1
    /\ reqs = EmptyBag

\* C9: a Like that has missed another request's write is answered 200 and leaves
\* in the store the caller followed by the likes it had read, nothing of what
\* was written in between.
C9_StaleLikeOverwrites ==
    [][\A q \in InFlight :
          (q.op = "like" /\ q.stale /\ q.pid \in DOMAIN posts /\ SaveOk(q))
          => /\ resp'.status = 200
             /\ MapUser(posts'[q.pid].likes) = <<q.caller>> \o MapUser(q.read.likes)]_vars

\* a lost update: a Like that had missed a write has been answered 200, and a
\* user whose Like was answered 200 (and who has not unliked since) is not in
\* the likes
C9_LostUpdate ==
    /\ resp.op = "like" /\ resp.status = 200 /\ resp.stale
    /\ resp.pid \in DOMAIN posts
    /\ \E u \in acked[resp.pid] : u # resp.caller /\ u \notin Likers(posts[resp.pid])

\* C10: a Delete-comment that does not overlap another write of the post and is
\* answered 200 takes out one comment, written by the caller; a Delete-comment
\* aimed at a comment of another user is answered 401 (500 if the read of the
\* store fails) and writes nothing, whoever owns the post.
C10_OnlyOwnCommentRemoved ==
    [][/\ \A q \in InFlight :
            (q.op = "deleteComment" /\ ~q.stale /\ q.pid \in DOMAIN posts /\ SaveOk(q))
            => \E i \in 1..Len(posts[q.pid].comments) :
                  /\ posts[q.pid].comments[i].user = q.caller
                  /\ posts'[q.pid].comments = RemoveAt(posts[q.pid].comments, i)
       /\ \A u \in Users, id \in DOMAIN posts, c \in CommentIdInputs :
            (/\ \E i \in 1..Len(posts[id].comments) :
                   posts[id].comments[i].id = c /\ posts[id].comments[i].user # u
             /\ DeleteCommentFind(u, id, c))
            => /\ posts' = posts /\ reqs' = reqs
               /\ resp'.status = 401 \/ ReadFailed]_vars

\* the owner of a post has been refused the removal of another user's comment
C10_Witness ==
    /\ resp.op = "deleteComment" /\ resp.status = 401
    /\ resp.pid \in DOMAIN posts
    /\ posts[resp.pid].user = resp.caller
    /\ \E i \in 1..Len(posts[resp.pid].comments) :
          posts[resp.pid].comments[i].user # resp.caller

====
